---- MODULE Spec2Model ----
(***************************************************************************)
(* Tourism-Analytics-Project: the synthetic dataset generator              *)
(* (dataset/generate_tourism_dataset.py) and the SQL compatibility         *)
(* verifier (dataset/compatibility_check.py).                              *)
(*                                                                         *)
(* Floating point values are modelled as exact rationals <<n, d>> in       *)
(* lowest terms (d > 0).  Values the code rounds with round(x, k) are kept *)
(* as integers scaled by 10^k.  The numpy global random stream is a        *)
(* deterministic state sequence; a draw advances it by one step and maps   *)
(* the state to one of a few points of the distribution's range.           *)
(***************************************************************************)
EXTENDS Integers, Sequences, FiniteSets, TLC

(***************************************************************************)
(* Bounds of the model.                                                    *)
(***************************************************************************)
MaxCountries == 2
RngMod == 16
MaxRows == 2

(***************************************************************************)
(* Exact rational arithmetic.  Each operation binds its operands through a *)
(* singleton set, so that an operand expression is evaluated once.         *)
(***************************************************************************)
Abs(x) == IF x < 0 THEN -x ELSE x

RECURSIVE GCD(_, _)
GCD(a, b) == IF b = 0 THEN a ELSE GCD(b, a % b)

Normal(n, d) ==
    LET g == GCD(Abs(n), Abs(d))
        s == IF d < 0 THEN -1 ELSE 1
    IN  <<s * (n \div g), s * (d \div g)>>

R(n, d) == CHOOSE r \in { Normal(x, y) : x \in {n}, y \in {d} } : TRUE

RInt(k) == <<k, 1>>

Product(a, b) ==
    LET g1 == GCD(Abs(a[1]), b[2])
        g2 == GCD(Abs(b[1]), a[2])
    IN  <<(a[1] \div g1) * (b[1] \div g2), (a[2] \div g2) * (b[2] \div g1)>>

RMul(a, b) == CHOOSE r \in { Product(x, y) : x \in {a}, y \in {b} } : TRUE

Inverse(b) == IF b[1] < 0 THEN <<-b[2], -b[1]>> ELSE <<b[2], b[1]>>

RDiv(a, b) == CHOOSE r \in { Product(x, Inverse(y)) : x \in {a}, y \in {b} } : TRUE

Sum(a, b) ==
    LET g == GCD(a[2], b[2])
    IN  Normal(a[1] * (b[2] \div g) + b[1] * (a[2] \div g), (a[2] \div g) * b[2])

RAdd(a, b) == CHOOSE r \in { Sum(x, y) : x \in {a}, y \in {b} } : TRUE

RSub(a, b) == CHOOSE r \in { Sum(x, <<-y[1], y[2]>>) : x \in {a}, y \in {b} } : TRUE

RLess(a, b) == RSub(a, b)[1] < 0

\* Python int(x) on a float: truncation toward zero.
Truncated(x) == IF x[1] >= 0 THEN x[1] \div x[2] ELSE -((-x[1]) \div x[2])

int(x) == CHOOSE r \in { Truncated(v) : v \in {x} } : TRUE

\* Python round(x, k): the nearest multiple of 10^-k, ties to even, returned
\* as the integer x * 10^k (scale = 10^k).
Rounded(x, scale) ==
    LET m  == Abs(x[1])
        g  == GCD(scale, x[2])
        s  == scale \div g
        d  == x[2] \div g
        q  == (m \div d) * s + ((m % d) * s) \div d
        r2 == 2 * (((m % d) * s) % d)
        up == r2 > d \/ (r2 = d /\ q % 2 = 1)
        v  == IF up THEN q + 1 ELSE q
    IN  IF x[1] < 0 THEN -v ELSE v

round(x, scale) == CHOOSE r \in { Rounded(v, scale) : v \in {x} } : TRUE

\* Python max(0, x).
max0(x) == CHOOSE r \in { IF v[1] > 0 THEN v ELSE RInt(0) : v \in {x} } : TRUE

\* F applied to the value of v (v is evaluated once).
Bind(v, F(_)) == CHOOSE r \in { F(x) : x \in {v} } : TRUE

(***************************************************************************)
(* The numpy global random stream.                                         *)
(***************************************************************************)
SEED == 42

np_random_seed(seed) == seed % RngMod

\* The stream is a counter; a draw advances it by one and reads the state
\* through a fixed mixing function.
RngStep(s) == (s + 1) % RngMod

\* The stream state n draws after s.
RngAdvance(s, n) == (s + n) % RngMod

RngMix(s) == (7 * s + 3) % RngMod

\* Points of the unit interval [0, 1) and of the standard normal a draw can
\* return (the latter includes a value below -10, so that a perturbation
\* N(0, 0.1) below -1 occurs).
UnitPoints == <<R(0, 1), R(1, 4), R(1, 2), R(3, 4)>>
NormalPoints == <<R(0, 1), R(-1, 1), R(1, 2), R(-11, 1), R(2, 1)>>

\* np.random.uniform(low, high) in the stream state s (already advanced).
np_random_uniform(s, low, high) ==
    RAdd(low, RMul(RSub(high, low), UnitPoints[(RngMix(s) % Len(UnitPoints)) + 1]))

\* np.random.normal(loc, scale) in the stream state s (already advanced).
np_random_normal(s, loc, scale) ==
    RAdd(loc, RMul(scale, NormalPoints[(RngMix(s) % Len(NormalPoints)) + 1]))

(***************************************************************************)
(* Python container access.                                                *)
(***************************************************************************)
KeyError == "KeyError"
ZeroDivisionError == "ZeroDivisionError"
IndexError == "IndexError"
NoException == "none"

Value(v) == [exc |-> NoException, val |-> v]
Raise(e) == [exc |-> e, val |-> <<>>]

\* d.get(k, default)-like access: a missing key yields some entry of d.
dict_getitem_default(d, k) ==
    IF k \in DOMAIN d THEN Value(d[k]) ELSE Value(d[CHOOSE x \in DOMAIN d : TRUE])

\* d[k] on a dict: the value, or KeyError.
dict_getitem(d, k) == IF k \in DOMAIN d THEN Value(d[k]) ELSE Raise(KeyError)

\* l[i] on a list with a zero-based index; negative indices count from the end.
list_getitem(l, i) ==
    IF i >= 0 /\ i < Len(l) THEN Value(l[i + 1])
    ELSE IF i < 0 /\ -i <= Len(l) THEN Value(l[Len(l) + i + 1])
    ELSE Raise(IndexError)

(***************************************************************************)
(* Static reference data of generate_tourism_dataset.                      *)
(***************************************************************************)
years_with_repeat == <<2018, 2019, 2020, 2020, 2022>>

years == <<2018, 2019, 2020, 2021, 2022>>

months_from_zero == <<0, 1, 2, 3, 4, 5, 6, 7, 8, 9, 10, 11>>

months == <<1, 2, 3, 4, 5, 6, 7, 8, 9, 10, 11, 12>>

\* Multipliers of the base arrivals per region, in tenths.
regional_multipliers ==
    "Europe" :> 12 @@ "Eastern Europe" :> 9 @@ "North America" :> 10 @@
    "Central America" :> 7 @@ "Caribbean" :> 8 @@ "Asia" :> 8 @@
    "Middle East" :> 6 @@ "Oceania" :> 4 @@ "Pacific Islands" :> 3 @@
    "Africa" :> 3 @@ "Sub-Saharan Africa" :> 2 @@ "South America" :> 5

\* Seasonal multipliers per region and month, in tenths.
seasonal_patterns ==
    "Europe" :> <<6, 5, 7, 8, 10, 12, 15, 14, 11, 9, 7, 6>> @@
    "Eastern Europe" :> <<5, 4, 6, 7, 9, 11, 14, 13, 10, 8, 6, 5>> @@
    "North America" :> <<7, 6, 8, 9, 10, 11, 13, 12, 10, 9, 8, 7>> @@
    "Central America" :> <<8, 7, 9, 10, 11, 10, 12, 11, 10, 9, 8, 8>> @@
    "Caribbean" :> <<10, 10, 11, 11, 12, 12, 13, 13, 12, 11, 10, 10>> @@
    "Asia" :> <<8, 7, 9, 10, 11, 10, 12, 11, 10, 9, 8, 8>> @@
    "Middle East" :> <<10, 9, 11, 10, 8, 6, 5, 6, 8, 10, 11, 10>> @@
    "Oceania" :> <<12, 11, 10, 9, 8, 7, 6, 7, 8, 9, 10, 11>> @@
    "Pacific Islands" :> <<11, 11, 10, 9, 8, 8, 9, 10, 11, 11, 11, 11>> @@
    "Africa" :> <<9, 8, 10, 11, 10, 9, 8, 9, 10, 11, 10, 9>> @@
    "Sub-Saharan Africa" :> <<8, 7, 9, 10, 11, 10, 9, 8, 9, 10, 11, 10>> @@
    "South America" :> <<8, 7, 9, 10, 11, 10, 9, 8, 9, 10, 11, 10>>

\* Multipliers per year, in hundredths.
year_multipliers ==
    2018 :> 100 @@ 2019 :> 105 @@ 2020 :> 30 @@ 2021 :> 60 @@ 2022 :> 85

PeakMonthsSummerOnly == {6, 7, 8}

PeakMonths == {6, 7, 8, 12}

(***************************************************************************)
(* Country profiles the configuration (countries_data) is drawn from: a    *)
(* profile of the shipped table, the profile of the documented example     *)
(* (population 1,000,000, mature, regional multiplier 1.0), and malformed  *)
(* profiles (a region absent from the static tables, a zero and a negative *)
(* population).                                                            *)
(***************************************************************************)
Profile(name, code, region, population, gdp, maturity) ==
    [name |-> name, code |-> code, region |-> region, population |-> population,
     gdp_per_capita |-> gdp, tourism_maturity |-> maturity]

ProfilePool ==
    { Profile("Samoa", "SAM", "Pacific Islands", 198000, 4300, "emerging"),
      Profile("Examplia", "EXA", "North America", 1000000, 1200, "mature"),
      Profile("Atlantis", "ATL", "Antarctica", 120000, 1000, "emerging"),
      Profile("Nullland", "NUL", "Caribbean", 0, 1000, "mature"),
      Profile("Negland", "NEG", "Asia", -120000, 1000, "emerging") }

\* countries_data: an insertion-ordered dict, one entry per country name.
Configurations ==
    { c \in UNION { [1..n -> ProfilePool] : n \in 1..MaxCountries } :
        \A i, j \in DOMAIN c : i # j => c[i].name # c[j].name }

(***************************************************************************)
(* generate_tourism_dataset: one record of the base table.                 *)
(***************************************************************************)
MaturityFactorSwapped(maturity) ==
    IF maturity = "mature" THEN R(8, 10)
    ELSE IF maturity = "emerging" THEN R(15, 10)
    ELSE RInt(1)

MaturityFactor(maturity) ==
    IF maturity = "mature" THEN R(15, 10)
    ELSE IF maturity = "emerging" THEN R(8, 10)
    ELSE RInt(1)

\* arrivals = max(0, base_monthly * (1 + variation))
ArrivalsUnclamped(base_monthly, variation) ==
    RMul(base_monthly, RAdd(RInt(1), variation))

Arrivals(base_monthly, variation) ==
    max0(RMul(base_monthly, RAdd(RInt(1), variation)))

\* The change of the year multiplier taken over the current year's multiplier.
GrowthBaseOverCurrent(year) ==
    RMul(R(year_multipliers[year] - year_multipliers[year - 1],
           year_multipliers[year]), RInt(100))

\* The deterministic part of the growth rate of a year after the first.
GrowthBase(year) ==
    RMul(R(year_multipliers[year] - year_multipliers[year - 1],
           year_multipliers[year - 1]), RInt(100))

\* arrivals_per_capita = arrivals / population
ArrivalsPerCapitaPerCent(arrivals, population) ==
    RMul(RDiv(arrivals, RInt(population)), RInt(100))

ArrivalsPerCapita(arrivals, population) == RDiv(arrivals, RInt(population))

\* The record appended for (year, month) once arrivals is computed, with the
\* stream in state s2 after the draws of the variation and of the growth rate.
RecordOf(info, year, month, arrivals, growth_rate, s2) ==
    LET s3 == RngStep(s2)
        s4 == RngStep(s3)
        s5 == RngStep(s4)
        arrivals_per_capita == ArrivalsPerCapita(arrivals, info.population)
        source_diversity == np_random_uniform(s3, R(4, 10), R(9, 10))
        peak == IF month \in PeakMonths
                THEN RMul(arrivals, R(15, 10)) ELSE RMul(arrivals, R(8, 10))
        off  == IF month \in PeakMonths
                THEN RMul(arrivals, R(6, 10)) ELSE RMul(arrivals, R(12, 10))
        peak_arrivals == RMul(peak, np_random_uniform(s4, R(9, 10), R(11, 10)))
        off_peak_arrivals == RMul(off, np_random_uniform(s5, R(9, 10), R(11, 10)))
    IN  [exc |-> NoException,
         rng |-> s5,
         row |-> [Country |-> info.name,
                  Country_Code |-> info.code,
                  Region |-> info.region,
                  Year |-> year,
                  Month |-> month,
                  Arrivals |-> int(arrivals),
                  Arrivals_Growth_Rate |-> round(growth_rate, 10),
                  Arrivals_Per_Capita |-> round(arrivals_per_capita, 1000000),
                  Source_Market_Diversity |-> round(source_diversity, 100),
                  Peak_Season_Arrivals |-> int(peak_arrivals),
                  Off_Season_Arrivals |-> int(off_peak_arrivals),
                  Population |-> info.population,
                  GDP_Per_Capita |-> info.gdp_per_capita,
                  Tourism_Maturity |-> info.tourism_maturity]]

\* The body of the month loop for (year, month), entered in stream state s:
\* the record appended, or the exception raised, and the stream state after.
TourismRecord(info, base_arrivals, year, month, s) ==
    LET pattern  == dict_getitem(seasonal_patterns, info.region)
        seasonal == IF pattern.exc = NoException
                    THEN list_getitem(pattern.val, month - 1) ELSE pattern
        s1 == RngStep(s)
        s2 == RngStep(s1)
    IN  IF seasonal.exc # NoException
        THEN [exc |-> seasonal.exc, row |-> <<>>, rng |-> s]
        ELSE
        LET base_monthly == RMul(RMul(RDiv(base_arrivals, RInt(12)),
                                      R(seasonal.val, 10)),
                                 R(year_multipliers[year], 100))
            variation == np_random_normal(s1, RInt(0), R(1, 10))
            growth_rate ==
                IF year > 2018
                THEN RAdd(GrowthBase(year), np_random_normal(s2, RInt(0), RInt(5)))
                ELSE np_random_normal(s2, RInt(2), RInt(3))
        IN  IF info.population = 0
            THEN [exc |-> ZeroDivisionError, row |-> <<>>, rng |-> s2]
            ELSE Bind(Arrivals(base_monthly, variation),
                      LAMBDA arrivals :
                        RecordOf(info, year, month, arrivals, growth_rate, s2))

\* The year and month loops of one country, entered with the list data and the
\* stream state s.  Every record draws five times, so the k-th iteration is
\* entered in the stream state 5 * (k - 1) draws after s; the first iteration
\* that raises ends the loops.
MonthLoop(info, base_arrivals, data, s) ==
    LET n == Len(years) * Len(months)
        rec(k) == TourismRecord(info, base_arrivals,
                                years[((k - 1) \div Len(months)) + 1],
                                months[((k - 1) % Len(months)) + 1],
                                RngAdvance(s, 5 * (k - 1)))
        raising == {k \in 1..n : rec(k).exc # NoException}
    IN  IF raising = {}
        THEN [exc |-> NoException,
              data |-> data \o [k \in 1..n |-> rec(k).row],
              rng |-> RngAdvance(s, 5 * n)]
        ELSE LET k0 == CHOOSE k \in raising : \A j \in raising : k <= j
             IN  [exc |-> rec(k0).exc,
                  data |-> data \o [k \in 1..(k0 - 1) |-> rec(k).row],
                  rng |-> rec(k0).rng]

\* One iteration of the country loop.
CountryIteration(info, data, s) ==
    LET base == RMul(RMul(RInt(info.population), R(1, 10)),
                     MaturityFactor(info.tourism_maturity))
        regional == dict_getitem(regional_multipliers, info.region)
    IN  IF regional.exc # NoException
        THEN [exc |-> regional.exc, data |-> data, rng |-> s]
        ELSE Bind(RMul(base, R(regional.val, 10)),
                  LAMBDA base_arrivals : MonthLoop(info, base_arrivals, data, s))

(***************************************************************************)
(* The derived-table generators.  Each iterates the rows of the base       *)
(* table in order (iterrows) and appends one record per row.               *)
(***************************************************************************)
AdrFactor(maturity) ==
    IF maturity = "mature" THEN R(12, 10)
    ELSE IF maturity = "emerging" THEN R(8, 10)
    ELSE RInt(1)

HotelRecordOf(row, s) ==
    LET s1 == RngStep(s)
        s2 == RngStep(s1)
        s3 == RngStep(s2)
        booking_rate == np_random_uniform(s1, R(6, 10), R(9, 10))
        bookings == int(RMul(RInt(row.Arrivals), booking_rate))
        base_adr == RMul(RMul(RInt(row.GDP_Per_Capita), R(1, 10)),
                         AdrFactor(row.Tourism_Maturity))
        adr == IF row.Month \in PeakMonths
               THEN RMul(base_adr, np_random_uniform(s2, R(13, 10), R(18, 10)))
               ELSE RMul(base_adr, np_random_uniform(s2, R(7, 10), R(12, 10)))
        occupancy == np_random_uniform(s3, R(4, 10), R(95, 100))
        revenue == RMul(RMul(RInt(bookings), adr), occupancy)
    IN  [rng |-> s3,
         row |-> [Country |-> row.Country,
                  Country_Code |-> row.Country_Code,
                  Region |-> row.Region,
                  Year |-> row.Year,
                  Month |-> row.Month,
                  Hotel_Bookings |-> bookings,
                  Average_Daily_Rate |-> round(adr, 100),
                  Occupancy_Rate |-> round(occupancy, 1000),
                  Revenue |-> round(revenue, 100),
                  Tourism_Maturity |-> row.Tourism_Maturity]]

\* A hotel record keyed by a zero-based month.
HotelRecordZeroBasedMonth(row, s) ==
    [HotelRecordOf(row, s) EXCEPT !.row.Month = row.Month - 1]

HotelRecord(row, s) == HotelRecordOf(row, s)

\* A loop that carries the previous row's arrivals into the next iteration.
generate_hotel_bookings_dataset_carrying(tourism_df, s) ==
    [df |-> [i \in 1..Len(tourism_df) |->
                HotelRecord([tourism_df[i] EXCEPT !.Arrivals =
                                @ + IF i > 1 THEN tourism_df[i - 1].Arrivals ELSE 0],
                            RngAdvance(s, 3 * (i - 1))).row],
     rng |-> RngAdvance(s, 3 * Len(tourism_df))]

\* Every record draws three times: the i-th row is read in the stream state
\* 3 * (i - 1) draws after s.
generate_hotel_bookings_dataset(tourism_df, s) ==
    [df |-> [i \in 1..Len(tourism_df) |->
                HotelRecord(tourism_df[i], RngAdvance(s, 3 * (i - 1))).row],
     rng |-> RngAdvance(s, 3 * Len(tourism_df))]

FlightRecord(row, s) ==
    LET s1 == RngStep(s)
        s2 == RngStep(s1)
        s3 == RngStep(s2)
        capacity_factor == np_random_uniform(s1, R(12, 10), R(18, 10))
        capacity == int(RMul(RInt(row.Arrivals), capacity_factor))
        load_factor == np_random_uniform(s2, R(6, 10), R(95, 100))
        passengers == int(RMul(RInt(capacity), load_factor))
        base0 == RMul(RInt(row.GDP_Per_Capita), R(5, 100))
        base_ticket_price ==
            IF row.Region = "Europe" THEN RMul(base0, R(8, 10))
            ELSE IF row.Region \in {"Asia", "Oceania"} THEN RMul(base0, R(15, 10))
            ELSE base0
        ticket_price ==
            IF row.Month \in PeakMonths
            THEN RMul(base_ticket_price, np_random_uniform(s3, R(12, 10), R(16, 10)))
            ELSE RMul(base_ticket_price, np_random_uniform(s3, R(8, 10), R(11, 10)))
        revenue == RMul(RInt(passengers), ticket_price)
    IN  [rng |-> s3,
         row |-> [Country |-> row.Country,
                  Country_Code |-> row.Country_Code,
                  Region |-> row.Region,
                  Year |-> row.Year,
                  Month |-> row.Month,
                  Flight_Capacity |-> capacity,
                  Passengers |-> passengers,
                  Load_Factor |-> round(load_factor, 1000),
                  Average_Ticket_Price |-> round(ticket_price, 100),
                  Revenue |-> round(revenue, 100),
                  Tourism_Maturity |-> row.Tourism_Maturity]]

\* Every record draws three times: the i-th row is read in the stream state
\* 3 * (i - 1) draws after s.
generate_flight_data_dataset(tourism_df, s) ==
    [df |-> [i \in 1..Len(tourism_df) |->
                FlightRecord(tourism_df[i], RngAdvance(s, 3 * (i - 1))).row],
     rng |-> RngAdvance(s, 3 * Len(tourism_df))]

RevenueFactor(maturity) ==
    IF maturity = "mature" THEN R(13, 10)
    ELSE IF maturity = "emerging" THEN R(7, 10)
    ELSE RInt(1)

RevenueRecord(row, s) ==
    LET s1 == RngStep(s)
        s2 == RngStep(s1)
        s3 == RngStep(s2)
        s4 == RngStep(s3)
        s5 == RngStep(s4)
        base_revenue_per_tourist ==
            RMul(RMul(RInt(row.GDP_Per_Capita), R(3, 10)),
                 RevenueFactor(row.Tourism_Maturity))
        revenue_per_tourist ==
            IF row.Month \in PeakMonths
            THEN RMul(base_revenue_per_tourist, np_random_uniform(s1, R(12, 10), R(15, 10)))
            ELSE RMul(base_revenue_per_tourist, np_random_uniform(s1, R(8, 10), R(11, 10)))
        total_revenue == RMul(RInt(row.Arrivals), revenue_per_tourist)
        accommodation_revenue ==
            RMul(total_revenue, np_random_uniform(s2, R(3, 10), R(5, 10)))
        transportation_revenue ==
            RMul(total_revenue, np_random_uniform(s3, R(2, 10), R(3, 10)))
        food_beverage_revenue ==
            RMul(total_revenue, np_random_uniform(s4, R(15, 100), R(25, 100)))
        activities_revenue ==
            RMul(total_revenue, np_random_uniform(s5, R(1, 10), R(2, 10)))
    IN  [rng |-> s5,
         row |-> [Country |-> row.Country,
                  Country_Code |-> row.Country_Code,
                  Region |-> row.Region,
                  Year |-> row.Year,
                  Month |-> row.Month,
                  Total_Revenue |-> round(total_revenue, 100),
                  Accommodation_Revenue |-> round(accommodation_revenue, 100),
                  Transportation_Revenue |-> round(transportation_revenue, 100),
                  Food_Beverage_Revenue |-> round(food_beverage_revenue, 100),
                  Activities_Revenue |-> round(activities_revenue, 100),
                  Revenue_Per_Tourist |-> round(revenue_per_tourist, 100),
                  Tourism_Maturity |-> row.Tourism_Maturity]]

\* Every record draws five times: the i-th row is read in the stream state
\* 5 * (i - 1) draws after s.
generate_tourism_revenue_dataset(tourism_df, s) ==
    [df |-> [i \in 1..Len(tourism_df) |->
                RevenueRecord(tourism_df[i], RngAdvance(s, 5 * (i - 1))).row],
     rng |-> RngAdvance(s, 5 * Len(tourism_df))]

(***************************************************************************)
(* State.                                                                  *)
(***************************************************************************)
VARIABLES
    countries_data,  \* generator: the configured country profiles, in order
    pc,              \* generator: position in main / generate_tourism_dataset
    ci,              \* generator: index of the next country of the country loop
    data,            \* generator: the list the base records are appended to
    np_rng,          \* generator: state of the numpy global random stream
    tourism_df,      \* generator: the base table
    hotel_df,        \* generator: the hotel bookings table
    flight_df,       \* generator: the flight data table
    revenue_df,      \* generator: the tourism revenue table
    exception,       \* generator: the exception that ended the run, if any
    run,             \* generator: 1 for the first run of the script, 2 for the second
    first_run,       \* generator: the four tables the first run produced
    files,           \* the files present in the working directory
    csv,             \* content of Tourism_Arrivals_Enhanced.csv: columns, row count
    vpc,             \* verifier: position in main
    conn,            \* verifier: the in-memory store: "none", "open" or "closed"
    table,           \* verifier: the Tourism_Arrivals table loaded into the store
    test,            \* verifier: index of the next query of the current function
    out,             \* verifier: the lines reported so far
    queries,         \* verifier: the queries executed so far, in order
    raised           \* verifier: the exception that left main, if any

genVars == <<countries_data, pc, ci, data, np_rng, tourism_df, hotel_df, flight_df,
             revenue_df, exception, run, first_run>>
verVars == <<vpc, conn, table, test, out, queries, raised>>
vars == <<countries_data, pc, ci, data, np_rng, tourism_df, hotel_df, flight_df,
          revenue_df, exception, run, first_run, files, csv,
          vpc, conn, table, test, out, queries, raised>>

ArrivalsFile == "Tourism_Arrivals_Enhanced.csv"
HotelFile == "Hotel_Bookings_Enhanced.csv"
FlightFile == "Flight_Data_Enhanced.csv"
RevenueFile == "Tourism_Revenue_Enhanced.csv"
SummaryFile == "dataset_summary.json"
ScriptFile == "compatibility_script.sql"

\* The columns of the base table the verifier's queries name, and the others.
QueriedColumns ==
    {"Country", "Region", "Year", "Arrivals", "Peak_Season_Arrivals",
     "Off_Season_Arrivals"}
OtherColumns ==
    {"Country_Code", "Month", "Arrivals_Growth_Rate", "Arrivals_Per_Capita",
     "Source_Market_Diversity", "Population", "GDP_Per_Capita", "Tourism_Maturity"}
ArrivalsColumns == QueriedColumns \cup OtherColumns

NoCsv == [cols |-> {}, nrows |-> 0]
NoTables == [tourism |-> <<>>, hotel |-> <<>>, flight |-> <<>>, revenue |-> <<>>]

(***************************************************************************)
(* The generator script.                                                   *)
(***************************************************************************)
\* Module-level seeding: whatever entropy the fresh process would otherwise
\* start its stream from, the stream is set from the fixed seed.
ModuleSeedingFromEntropy(os_entropy) == os_entropy

ModuleSeeding(os_entropy) == np_random_seed(SEED)

VerifierIdle ==
    /\ vpc = "idle"
    /\ conn = "none"
    /\ table = NoCsv
    /\ test = 0
    /\ out = <<>>
    /\ queries = <<>>
    /\ raised = NoException

Init ==
    /\ countries_data \in Configurations
    /\ pc = "generate_tourism_dataset"
    /\ ci = 1
    /\ data = <<>>
    /\ \E os_entropy \in 0..(RngMod - 1) : np_rng = ModuleSeeding(os_entropy)
    /\ tourism_df = <<>>
    /\ hotel_df = <<>>
    /\ flight_df = <<>>
    /\ revenue_df = <<>>
    /\ exception = NoException
    /\ run = 1
    /\ first_run = NoTables
    /\ files = {}
    /\ csv = NoCsv
    /\ VerifierIdle

\* One iteration of the country loop of generate_tourism_dataset; an exception
\* leaves generate_tourism_dataset and main.
GenerateCountry ==
    /\ pc = "generate_tourism_dataset"
    /\ ci <= Len(countries_data)
    /\ LET r == CountryIteration(countries_data[ci], data, np_rng)
       IN  /\ data' = r.data
           /\ np_rng' = r.rng
           /\ IF r.exc = NoException
              THEN ci' = ci + 1 /\ pc' = pc /\ exception' = exception
              ELSE ci' = ci /\ pc' = "aborted" /\ exception' = r.exc
    /\ UNCHANGED <<countries_data, tourism_df, hotel_df, flight_df, revenue_df, run,
                   first_run, files, csv>>
    /\ UNCHANGED verVars

\* generate_tourism_dataset returns the frame; main writes it.
MainTourism ==
    /\ pc = "generate_tourism_dataset"
    /\ ci > Len(countries_data)
    /\ tourism_df' = data
    /\ files' = files \cup {ArrivalsFile}
    /\ csv' = [cols |-> ArrivalsColumns, nrows |-> Len(data)]
    /\ pc' = "hotel"
    /\ UNCHANGED <<countries_data, ci, data, np_rng, hotel_df, flight_df, revenue_df,
                   exception, run, first_run>>
    /\ UNCHANGED verVars

MainHotel ==
    /\ pc = "hotel"
    /\ LET r == generate_hotel_bookings_dataset(tourism_df, np_rng)
       IN  hotel_df' = r.df /\ np_rng' = r.rng
    /\ files' = files \cup {HotelFile}
    /\ pc' = "flight"
    /\ UNCHANGED <<countries_data, ci, data, tourism_df, flight_df, revenue_df,
                   exception, run, first_run, csv>>
    /\ UNCHANGED verVars

MainFlight ==
    /\ pc = "flight"
    /\ LET r == generate_flight_data_dataset(tourism_df, np_rng)
       IN  flight_df' = r.df /\ np_rng' = r.rng
    /\ files' = files \cup {FlightFile}
    /\ pc' = "revenue"
    /\ UNCHANGED <<countries_data, ci, data, tourism_df, hotel_df, revenue_df,
                   exception, run, first_run, csv>>
    /\ UNCHANGED verVars

MainRevenue ==
    /\ pc = "revenue"
    /\ LET r == generate_tourism_revenue_dataset(tourism_df, np_rng)
       IN  revenue_df' = r.df /\ np_rng' = r.rng
    /\ files' = files \cup {RevenueFile}
    /\ pc' = "summary"
    /\ UNCHANGED <<countries_data, ci, data, tourism_df, hotel_df, flight_df,
                   exception, run, first_run, csv>>
    /\ UNCHANGED verVars

MainSummary ==
    /\ pc = "summary"
    /\ files' = files \cup {SummaryFile}
    /\ pc' = "done"
    /\ UNCHANGED <<countries_data, ci, data, np_rng, tourism_df, hotel_df, flight_df,
                   revenue_df, exception, run, first_run, csv>>
    /\ UNCHANGED verVars

\* The script is run a second time, as a fresh process in the same directory.
Rerun ==
    /\ pc \in {"done", "aborted"}
    /\ run = 1
    /\ run' = 2
    /\ first_run' = [tourism |-> tourism_df, hotel |-> hotel_df,
                     flight |-> flight_df, revenue |-> revenue_df]
    /\ pc' = "generate_tourism_dataset"
    /\ ci' = 1
    /\ data' = <<>>
    /\ \E os_entropy \in 0..(RngMod - 1) : np_rng' = ModuleSeeding(os_entropy)
    /\ tourism_df' = <<>>
    /\ hotel_df' = <<>>
    /\ flight_df' = <<>>
    /\ revenue_df' = <<>>
    /\ exception' = NoException
    /\ UNCHANGED <<countries_data, files, csv>>
    /\ UNCHANGED verVars

Next ==
    \/ GenerateCountry
    \/ MainTourism
    \/ MainHotel
    \/ MainFlight
    \/ MainRevenue
    \/ MainSummary
    \/ Rerun

Spec == Init /\ [][Next]_vars

(***************************************************************************)
(* The verifier script.                                                    *)
(***************************************************************************)
BasicQueries ==
    <<"basic_select", "year_range", "peak_off_season", "growth_rate", "regional">>
SolutionQueries == <<"solution_1", "solution_3", "solution_4">>
DataQualityQueries == <<"missing_values", "year_range_check", "country_distribution">>

\* The columns of Tourism_Arrivals each query names.
QueryColumns ==
    "basic_select" :> {} @@
    "year_range" :> {"Year"} @@
    "peak_off_season" :> {"Country", "Peak_Season_Arrivals", "Off_Season_Arrivals"} @@
    "growth_rate" :> {"Country", "Year", "Arrivals"} @@
    "regional" :> {"Region", "Country"} @@
    "solution_1" :> {"Country", "Year", "Arrivals"} @@
    "solution_3" :> {"Country", "Peak_Season_Arrivals", "Off_Season_Arrivals"} @@
    "solution_4" :> {"Country", "Year"} @@
    "missing_values" :> {"Arrivals", "Peak_Season_Arrivals", "Off_Season_Arrivals"} @@
    "year_range_check" :> {"Year"} @@
    "country_distribution" :> {"Country", "Region"}

\* The queries whose reported result is COUNT(*) of the table.
CountQueries == {"basic_select", "missing_values"}

NoSuchColumn == "no such column"
ExecutionError == "execution error"
EmptyTable == "empty table"

\* pd.read_sql_query(q, conn): the error it raises, if any.  A query that names
\* a column the table lacks raises; any query may also raise for a reason the
\* table does not decide (engine_fault: the store fails to execute it).
QueryErrorOrEmpty(q, tbl, engine_fault) ==
    IF ~(QueryColumns[q] \subseteq tbl.cols) THEN NoSuchColumn
    ELSE IF engine_fault THEN ExecutionError
    ELSE IF q = "basic_select" /\ tbl.nrows = 0 THEN EmptyTable
    ELSE NoException

QueryError(q, tbl, engine_fault) ==
    IF ~(QueryColumns[q] \subseteq tbl.cols) THEN NoSuchColumn
    ELSE IF engine_fault THEN ExecutionError
    ELSE NoException

\* COUNT(*) over the table.
CountRows(tbl) == tbl.nrows

\* What each function does when one of its queries raises.
BasicOnError == "return False"

SolutionOnErrorReturn == "return False"

SolutionOnError == "continue"

DataQualityOnError == "propagate"

os_path_exists_always(file) == TRUE

os_path_exists(file) == file \in files

PassLine(q, tbl) ==
    IF q \in CountQueries
    THEN [kind |-> "pass", check |-> q, value |-> CountRows(tbl)]
    ELSE [kind |-> "pass", check |-> q]
FailLine(q, e) == [kind |-> "fail", check |-> q, error |-> e]
InfoLine(what) == [kind |-> "info", check |-> what]
MissingInputLine == [kind |-> "error", check |-> "Tourism_Arrivals_Enhanced.csv not found"]

GeneratorIdle ==
    /\ countries_data = <<>>
    /\ pc = "idle"
    /\ ci = 1
    /\ data = <<>>
    /\ np_rng = 0
    /\ tourism_df = <<>>
    /\ hotel_df = <<>>
    /\ flight_df = <<>>
    /\ revenue_df = <<>>
    /\ exception = NoException
    /\ run = 1
    /\ first_run = NoTables

\* The verifier starts in a directory where the arrivals file is absent, is an
\* empty file (no columns), or holds a header with some of the queried columns
\* and up to MaxRows rows.
VerifierInit ==
    /\ GeneratorIdle
    /\ \/ files = {} /\ csv = NoCsv
       \/ files = {ArrivalsFile} /\ csv = NoCsv
       \/ /\ files = {ArrivalsFile}
          /\ \E present \in SUBSET QueriedColumns, n \in 0..MaxRows :
                csv = [cols |-> present \cup OtherColumns, nrows |-> n]
    /\ vpc = "main"
    /\ conn = "none"
    /\ table = NoCsv
    /\ test = 0
    /\ out = <<>>
    /\ queries = <<>>
    /\ raised = NoException

\* main: the check that the generated file exists.
CheckInput ==
    /\ vpc = "main"
    /\ IF os_path_exists(ArrivalsFile)
       THEN vpc' = "create_test_database" /\ out' = out
       ELSE vpc' = "returned" /\ out' = Append(out, MissingInputLine)
    /\ UNCHANGED <<conn, table, test, queries, raised, files, csv>>
    /\ UNCHANGED genVars

\* create_test_database: read the file, create the store, load the table.
CreateTestDatabase ==
    /\ vpc = "create_test_database"
    /\ IF ArrivalsFile \notin files
       THEN /\ raised' = "FileNotFoundError" /\ vpc' = "raised"
            /\ UNCHANGED <<conn, table, test, out>>
       ELSE IF csv.cols = {}
       THEN /\ raised' = "EmptyDataError" /\ vpc' = "raised"
            /\ UNCHANGED <<conn, table, test, out>>
       ELSE /\ conn' = "open"
            /\ table' = csv
            /\ out' = Append(out, InfoLine("created"))
            /\ vpc' = "basic"
            /\ test' = 1
            /\ raised' = raised
    /\ UNCHANGED <<queries, files, csv>>
    /\ UNCHANGED genVars

\* One try block of test_sql_compatibility, and main's branch on its result
\* once the function returns.
BasicTest ==
    /\ vpc = "basic"
    /\ \E engine_fault \in BOOLEAN :
         LET q == BasicQueries[test]
             e == QueryError(q, table, engine_fault)
             last == test = Len(BasicQueries)
         IN  /\ queries' = Append(queries, q)
             /\ IF e # NoException /\ BasicOnError = "return False"
                THEN /\ out' = out \o <<FailLine(q, e), InfoLine("basic failed")>>
                     /\ vpc' = "returned"
                     /\ test' = test
                ELSE /\ out' = out
                          \o <<IF e # NoException THEN FailLine(q, e)
                               ELSE PassLine(q, table)>>
                          \o (IF last THEN <<InfoLine("basic passed")>> ELSE <<>>)
                     /\ vpc' = IF last THEN "solutions" ELSE "basic"
                     /\ test' = IF last THEN 1 ELSE test + 1
    /\ UNCHANGED <<conn, table, raised, files, csv>>
    /\ UNCHANGED genVars

\* One try block of test_specific_sql_solutions.
SolutionTest ==
    /\ vpc = "solutions"
    /\ \E engine_fault \in BOOLEAN :
         LET q == SolutionQueries[test]
             e == QueryError(q, table, engine_fault)
             last == test = Len(SolutionQueries)
         IN  /\ queries' = Append(queries, q)
             /\ out' = Append(out, IF e # NoException THEN FailLine(q, e)
                                   ELSE PassLine(q, table))
             /\ IF last \/ (e # NoException /\ SolutionOnError # "continue")
                THEN vpc' = "data_quality" /\ test' = 1
                ELSE vpc' = "solutions" /\ test' = test + 1
    /\ UNCHANGED <<conn, table, raised, files, csv>>
    /\ UNCHANGED genVars

\* One query of analyze_data_quality and the printing of its result.
DataQualityQuery ==
    /\ vpc = "data_quality"
    /\ \E engine_fault \in BOOLEAN :
         LET q == DataQualityQueries[test]
             e == QueryError(q, table, engine_fault)
             last == test = Len(DataQualityQueries)
         IN  /\ queries' = Append(queries, q)
             /\ IF e # NoException /\ DataQualityOnError = "propagate"
                THEN /\ raised' = "DatabaseError"
                     /\ vpc' = "raised"
                     /\ UNCHANGED <<out, test>>
                ELSE /\ out' = Append(out, IF e # NoException THEN FailLine(q, e)
                                           ELSE PassLine(q, table))
                     /\ vpc' = IF last THEN "create_compatibility_script"
                               ELSE "data_quality"
                     /\ test' = IF last THEN 1 ELSE test + 1
                     /\ raised' = raised
    /\ UNCHANGED <<conn, table, files, csv>>
    /\ UNCHANGED genVars

CreateCompatibilityScript ==
    /\ vpc = "create_compatibility_script"
    /\ files' = files \cup {ScriptFile}
    /\ out' = Append(out, InfoLine("created compatibility_script.sql"))
    /\ vpc' = "close"
    /\ UNCHANGED <<conn, table, test, queries, raised, csv>>
    /\ UNCHANGED genVars

\* main: close the connection and print the final report.
CloseAndReport ==
    /\ vpc = "close"
    /\ conn' = "closed"
    /\ out' = Append(out, InfoLine("compatible with all existing SQL solutions"))
    /\ vpc' = "done"
    /\ UNCHANGED <<table, test, queries, raised, files, csv>>
    /\ UNCHANGED genVars

VerifierNext ==
    \/ CheckInput
    \/ CreateTestDatabase
    \/ BasicTest
    \/ SolutionTest
    \/ DataQualityQuery
    \/ CreateCompatibilityScript
    \/ CloseAndReport

VerifierSpec == VerifierInit /\ [][VerifierNext]_vars

(***************************************************************************)
(* Properties of the generator (specification Spec).                       *)
(***************************************************************************)
Rows(df) == { df[i] : i \in DOMAIN df }
Key(row) == <<row.Country, row.Year, row.Month>>
Generated(positions) == pc \in positions
AfterHotel == {"flight", "revenue", "summary", "done"}
AfterFlight == {"revenue", "summary", "done"}
AfterRevenue == {"summary", "done"}

\* C1: with the fixed seed, a second run of the generator produces the same
\* four tables as the first run, record for record, each table as soon as the
\* second run has generated it.
C1_SameTablesAcrossRuns ==
    run = 2 =>
        /\ Generated({"hotel"} \cup AfterHotel) => tourism_df = first_run.tourism
        /\ Generated(AfterHotel) => hotel_df = first_run.hotel
        /\ Generated(AfterFlight) => flight_df = first_run.flight
        /\ Generated(AfterRevenue) => revenue_df = first_run.revenue

\* A second run has completed and its base table holds every (year, month)
\* record of at least one country.
C1_Witness ==
    /\ run = 2
    /\ pc = "done"
    /\ Len(tourism_df) >= Len(years) * Len(months)
    /\ Len(revenue_df) = Len(tourism_df)

SameKeys(derived, base) ==
    /\ Len(derived) = Len(base)
    /\ \A i \in DOMAIN base : Key(derived[i]) = Key(base[i])
    /\ { Key(r) : r \in Rows(derived) } = { Key(r) : r \in Rows(base) }

\* C2: every derived table (hotel, flight, revenue), once generated from the
\* base table, has the same number of rows as the base table and the same set
\* of (Country, Year, Month) keys, row for row.
C2_DerivedTablesKeepKeys ==
    /\ Generated(AfterHotel) => SameKeys(hotel_df, tourism_df)
    /\ Generated(AfterFlight) => SameKeys(flight_df, tourism_df)
    /\ Generated(AfterRevenue) => SameKeys(revenue_df, tourism_df)

\* All three derived tables have been generated from a base table of two
\* countries.
C2_Witness ==
    /\ pc = "done"
    /\ Len(tourism_df) = 2 * Len(years) * Len(months)
    /\ Len(hotel_df) = Len(tourism_df)
    /\ Cardinality({ Key(r) : r \in Rows(revenue_df) }) = Len(tourism_df)

MissingRegion(info) ==
    \/ info.region \notin DOMAIN regional_multipliers
    \/ info.region \notin DOMAIN seasonal_patterns

RowsOf(info, df) == { r \in Rows(df) : r.Country = info.name }

\* C7: when a country profile names a region that the static tables lack, the
\* generator never gets past that country: it aborts there with a KeyError, no
\* record is produced for the country (no default is substituted), and no
\* output file is written.
C7_MissingRegionAborts ==
    \A i \in DOMAIN countries_data :
        MissingRegion(countries_data[i]) =>
            /\ ci <= i
            /\ pc \in {"generate_tourism_dataset", "aborted"}
            /\ (pc = "aborted" /\ ci = i) => exception = KeyError
            /\ RowsOf(countries_data[i], data) = {}
            /\ tourism_df = <<>>
            /\ files = {}

\* The second configured country has an unknown region: the run aborted there
\* with the first country's records already in memory.
C7_Witness ==
    /\ Len(countries_data) = 2
    /\ MissingRegion(countries_data[2])
    /\ pc = "aborted"
    /\ ci = 2
    /\ exception = KeyError
    /\ Len(data) = Len(years) * Len(months)

\* C8: when a country profile has a non-positive population, generation fails
\* before any record is produced for that profile: the country loop never gets
\* past the profile and no record carries its name.
C8_NonPositivePopulationFailsFast ==
    \A i \in DOMAIN countries_data :
        countries_data[i].population <= 0 =>
            /\ ci <= i
            /\ RowsOf(countries_data[i], data) = {}

\* C9: every record of the base table has Arrivals >= 0, the records whose
\* perturbed value is negative included.
C9_ArrivalsNonNegative ==
    \A r \in Rows(data) \cup Rows(tourism_df) : r.Arrivals >= 0

\* A record of a country with positive base arrivals whose perturbation was
\* below -1: its negative product was clamped to zero.
C9_Witness ==
    \E r \in Rows(tourism_df) :
        /\ r.Population > 0
        /\ r.Arrivals = 0
        /\ r.Peak_Season_Arrivals = 0

TimeInRange(df) ==
    \A r \in Rows(df) : r.Year \in 2018..2022 /\ r.Month \in 1..12

\* C10: every record of the base table and of the three derived tables has
\* Year in 2018..2022 and Month in 1..12.
C10_YearAndMonthInRange ==
    /\ TimeInRange(data)
    /\ TimeInRange(tourism_df)
    /\ TimeInRange(hotel_df)
    /\ TimeInRange(flight_df)
    /\ TimeInRange(revenue_df)

\* All four tables are generated and hold the first and the last month of the
\* first and the last year.
C10_Witness ==
    /\ pc = "done"
    /\ \A df \in {tourism_df, hotel_df, flight_df, revenue_df} :
          /\ \E r \in Rows(df) : r.Year = 2018 /\ r.Month = 1
          /\ \E r \in Rows(df) : r.Year = 2022 /\ r.Month = 12

(***************************************************************************)
(* Properties of the verifier (specification VerifierSpec).                *)
(***************************************************************************)
Lines(kind) == { out[i] : i \in { j \in DOMAIN out : out[j].kind = kind } }
Failed(q) == \E l \in Lines("fail") : l.check = q
Passed(q) == \E l \in Lines("pass") : l.check = q
Executed(q) == \E i \in DOMAIN queries : queries[i] = q
Range(seq) == { seq[i] : i \in DOMAIN seq }
Halted == vpc = "returned" /\ conn = "open"

C4_EmptyTableHalts ==
    (conn = "open" /\ table.nrows = 0) => Len(queries) <= 1

\* C4: with a table of 0 rows the basic count query returns 0 and is reported
\* as passed with that count; the verifier does not halt on it: the count check
\* fails only when the query itself raises, and a halt is always at a query
\* that raised.
C4_EmptyTableCountPasses ==
    (conn # "none" /\ table.nrows = 0) =>
        /\ \A l \in Lines("pass") : l.check \in CountQueries => l.value = 0
        /\ \A l \in Lines("fail") : l.error \in {NoSuchColumn, ExecutionError}
        /\ \A l \in Lines("fail") : l.check = "basic_select" => l.error = ExecutionError
        /\ (Executed("basic_select") /\ ~Failed("basic_select")) =>
              /\ [kind |-> "pass", check |-> "basic_select", value |-> 0] \in Range(out)
              /\ vpc = "returned" => Len(queries) >= 2

\* A table of 0 rows with every queried column: the count was reported as 0
\* and the verifier ran every check to the end.
C4_Witness ==
    /\ table.nrows = 0
    /\ [kind |-> "pass", check |-> "basic_select", value |-> 0] \in Range(out)
    /\ Len(queries) = Len(BasicQueries) + Len(SolutionQueries) + Len(DataQualityQueries)
    /\ vpc = "done"

\* C5: a query that raises, in the basic, specific-solution or data-quality
\* checks, is caught and reported as a failed check with its error; the error
\* never propagates out of the verifier.
C5_QueryErrorsNeverPropagate ==
    /\ raised # "DatabaseError"
    /\ \A i \in DOMAIN queries : Passed(queries[i]) \/ Failed(queries[i])

\* C6: when the arrivals file is absent the verifier reports the missing input
\* and returns: no store is created, no query is executed and no script file
\* is written.
C6_MissingInputAborts ==
    ArrivalsFile \notin files =>
        /\ vpc \in {"main", "returned"}
        /\ vpc = "returned" => out = <<MissingInputLine>>
        /\ conn = "none"
        /\ table = NoCsv
        /\ queries = <<>>
        /\ raised = NoException
        /\ ScriptFile \notin files

\* The file is absent and the verifier has reported it and returned.
C6_Witness ==
    /\ ArrivalsFile \notin files
    /\ vpc = "returned"
    /\ out = <<MissingInputLine>>

(***************************************************************************)
(* Properties of the records of the base table (specification Spec).       *)
(***************************************************************************)
\* |x| of a rational.
RAbs(x) == <<Abs(x[1]), x[2]>>

\* The stored per-capita value (millionths) less Arrivals / Population.
PerCapitaError(r) ==
    RSub(R(r.Arrivals_Per_Capita, 1000000), R(r.Arrivals, r.Population))

\* One unit of Arrivals per head (the truncation of Arrivals) and half a unit
\* of the sixth decimal (the rounding of Arrivals_Per_Capita).
PerCapitaTolerance(r) == RAdd(R(1, Abs(r.Population)), R(1, 2000000))

\* C11: in every record of the base table the stored Arrivals_Per_Capita
\* differs from the stored Arrivals divided by the stored Population by less
\* than the rounding tolerance: 1 / |Population| for the truncation of
\* Arrivals plus 0.0000005 for the rounding to 6 decimals.
C11_PerCapitaWithinTolerance ==
    \A r \in Rows(data) \cup Rows(tourism_df) :
        RLess(RAbs(PerCapitaError(r)), PerCapitaTolerance(r))

\* A record with positive arrivals whose stored per-capita value is not
\* exactly Arrivals / Population: the tolerance is needed.
C11_Witness ==
    \E r \in Rows(tourism_df) :
        /\ r.Arrivals > 0
        /\ r.Population > 0
        /\ PerCapitaError(r)[1] # 0

\* The stream state in which the iteration appending the i-th record of the
\* base table is entered: every record before it made five draws.
StreamAt(i) == RngAdvance(np_random_seed(SEED), 5 * (i - 1))

\* The perturbation drawn for the i-th record (the first draw of its iteration).
VariationOf(i) == np_random_normal(RngStep(StreamAt(i)), RInt(0), R(1, 10))

\* population * 0.1 * maturity_factor * region_multiplier / 12
\*   * seasonal[region][month] * year_factor[year], for the fields of record r.
UnperturbedArrivals(r) ==
    LET maturity_factor == IF r.Tourism_Maturity = "mature" THEN R(15, 10) ELSE R(8, 10)
        yearly == RMul(RMul(RMul(RInt(r.Population), R(1, 10)), maturity_factor),
                       R(regional_multipliers[r.Region], 10))
    IN  RMul(RMul(RDiv(yearly, RInt(12)),
                  R(seasonal_patterns[r.Region][r.Month], 10)),
             R(year_multipliers[r.Year], 100))

ArrivalsFormulaHolds(df) ==
    \A i \in DOMAIN df :
        LET r == df[i]
            f == UnperturbedArrivals(r)
            v == VariationOf(i)
        IN  /\ r.Tourism_Maturity \in {"mature", "emerging"}
            /\ r.Arrivals = int(max0(RMul(f, RAdd(RInt(1), v))))
            /\ (v = RInt(0) /\ r.Population > 0) => r.Arrivals = int(f)

\* C12: a record drawn with zero perturbation has arrivals (stored truncated
\* to an integer) equal to population * 0.1 * maturity_factor *
\* region_multiplier / 12 * seasonal[region][month] * year_factor[year], with
\* maturity_factor 1.5 for "mature" and 0.8 for "emerging"; every record
\* carries that product times (1 + perturbation), clamped at zero, so no other
\* maturity factor is applied.
C12_UnperturbedArrivalsFormula ==
    /\ ArrivalsFormulaHolds(data)
    /\ ArrivalsFormulaHolds(tourism_df)

\* The documented example: population 1,000,000, mature, regional, seasonal
\* and year multipliers 1.0, zero perturbation: 12,500 arrivals.
C12_Witness ==
    \E i \in DOMAIN tourism_df :
        /\ VariationOf(i) = RInt(0)
        /\ tourism_df[i].Population = 1000000
        /\ tourism_df[i].Tourism_Maturity = "mature"
        /\ regional_multipliers[tourism_df[i].Region] = 10
        /\ seasonal_patterns[tourism_df[i].Region][tourism_df[i].Month] = 10
        /\ year_multipliers[tourism_df[i].Year] = 100
        /\ tourism_df[i].Arrivals = 12500

RecordsPerCountry == Len(years) * Len(months)

\* The i-th record is the one of the country, year and month that the three
\* nested loops reach i-th.
InLoopOrder(df) ==
    \A i \in DOMAIN df :
        /\ ((i - 1) \div RecordsPerCountry) + 1 \in DOMAIN countries_data
        /\ df[i].Country = countries_data[((i - 1) \div RecordsPerCountry) + 1].name
        /\ df[i].Year = years[(((i - 1) % RecordsPerCountry) \div Len(months)) + 1]
        /\ df[i].Month = months[((i - 1) % Len(months)) + 1]

DistinctKeys(df) ==
    \A i, j \in DOMAIN df : i # j => Key(df[i]) # Key(df[j])

OneRecordPerKey ==
    /\ DistinctKeys(data) /\ InLoopOrder(data)
    /\ DistinctKeys(tourism_df) /\ InLoopOrder(tourism_df)
    /\ Generated({"hotel"} \cup AfterHotel) =>
          Len(tourism_df) = Len(countries_data) * 5 * 12

\* Within a run the list only grows at its end and the finished table does
\* not change.
AppendOnly ==
    run' = run =>
        /\ Len(data') >= Len(data)
        /\ SubSeq(data', 1, Len(data)) = data
        /\ tourism_df # <<>> => tourism_df' = tourism_df

\* C13: the base table holds exactly one record per (country, year, month):
\* its keys are pairwise distinct, its records are in country-major, then
\* year, then month order, a completed table has number_of_countries * 5 * 12
\* records, and a record once appended is never changed or removed.
C13_OneRecordPerKeyAppendOnly == []OneRecordPerKey /\ [][AppendOnly]_vars

\* The base table of two countries has just been completed.
C13_Witness ==
    /\ pc = "hotel"
    /\ Len(countries_data) = 2
    /\ Len(tourism_df) = 2 * 5 * 12
    /\ tourism_df = data

(***************************************************************************)
(* Frame of the derived-table generators (specification Spec).             *)
(***************************************************************************)
\* The stream states in which the three derived generators are entered: the
\* base table took five draws per record, hotel and flight three each.
HotelEntry == StreamAt(Len(tourism_df) + 1)
FlightEntry == RngAdvance(HotelEntry, 3 * Len(tourism_df))
RevenueEntry == RngAdvance(FlightEntry, 3 * Len(tourism_df))

\* A base row with every field the derived generators read changed.
AlteredRow(r) ==
    [r EXCEPT !.Country = "Elsewhere",
              !.Country_Code = "ELS",
              !.Region = IF r.Region = "Europe" THEN "Asia" ELSE "Europe",
              !.Year = IF r.Year = 2022 THEN 2018 ELSE r.Year + 1,
              !.Month = IF r.Month \in PeakMonths THEN 1 ELSE 7,
              !.Arrivals = r.Arrivals + 1000,
              !.GDP_Per_Capita = r.GDP_Per_Capita + 500,
              !.Tourism_Maturity = IF r.Tourism_Maturity = "mature"
                                   THEN "emerging" ELSE "mature"]

\* The base table with the fields of every row of the set changed.
AlteredIn(rows_changed) ==
    [k \in DOMAIN tourism_df |->
        IF k \in rows_changed THEN AlteredRow(tourism_df[k]) ELSE tourism_df[k]]

\* The changes of other rows that record i is checked against: every other
\* row at once, and the single rows before and after it, the first, the last.
ChangesBeside(i) ==
    { AlteredIn(DOMAIN tourism_df \ {i}) }
        \cup { AlteredIn({j}) : j \in ({1, i - 1, i + 1, Len(tourism_df)}
                                        \cap DOMAIN tourism_df) \ {i} }

\* C14: with the draws of every row fixed, changing the fields of other base
\* rows (one other row, or all of them) leaves derived record i of the hotel,
\* flight and revenue tables as it is in the generated table: a derived record
\* depends on its own base row and its own draws only.
C14_DerivedRowsIndependent ==
    \A i \in DOMAIN tourism_df :
        \A altered \in ChangesBeside(i) :
            /\ Generated(AfterHotel) =>
                  generate_hotel_bookings_dataset(altered, HotelEntry).df[i]
                      = hotel_df[i]
            /\ Generated(AfterFlight) =>
                  generate_flight_data_dataset(altered, FlightEntry).df[i]
                      = flight_df[i]
            /\ Generated(AfterRevenue) =>
                  generate_tourism_revenue_dataset(altered, RevenueEntry).df[i]
                      = revenue_df[i]

\* All three derived tables are generated from a base table of two countries,
\* and changing a base row does change its own derived records.
C14_Witness ==
    /\ pc = "done"
    /\ Len(tourism_df) = 2 * RecordsPerCountry
    /\ generate_hotel_bookings_dataset(AlteredIn({1}), HotelEntry).df[1] # hotel_df[1]
    /\ generate_flight_data_dataset(AlteredIn({1}), FlightEntry).df[1] # flight_df[1]
    /\ generate_tourism_revenue_dataset(AlteredIn({1}), RevenueEntry).df[1] # revenue_df[1]

(***************************************************************************)
(* Peak / off-season split and growth rate (specification Spec).           *)
(***************************************************************************)
\* The arrivals of the i-th record before truncation.
ArrivalsOf(df, i) ==
    max0(RMul(UnperturbedArrivals(df[i]), RAdd(RInt(1), VariationOf(i))))

\* The fourth and fifth draws of the i-th record's iteration.
PeakDraw(i) == np_random_uniform(RngAdvance(StreamAt(i), 4), R(9, 10), R(11, 10))
OffDraw(i) == np_random_uniform(RngAdvance(StreamAt(i), 5), R(9, 10), R(11, 10))

InUnitBand(u) == ~RLess(u, R(9, 10)) /\ ~RLess(R(11, 10), u)

SplitHolds(df) ==
    \A i \in DOMAIN df :
        LET r == df[i]
            a == ArrivalsOf(df, i)
            peak == IF r.Month \in {6, 7, 8, 12}
                    THEN RMul(a, R(15, 10)) ELSE RMul(a, R(8, 10))
            off  == IF r.Month \in {6, 7, 8, 12}
                    THEN RMul(a, R(6, 10)) ELSE RMul(a, R(12, 10))
        IN  /\ InUnitBand(PeakDraw(i)) /\ InUnitBand(OffDraw(i))
            /\ r.Peak_Season_Arrivals = int(RMul(peak, PeakDraw(i)))
            /\ r.Off_Season_Arrivals = int(RMul(off, OffDraw(i)))
            /\ r.Peak_Season_Arrivals >= 0 /\ r.Off_Season_Arrivals >= 0
            /\ int(RMul(peak, R(9, 10))) <= r.Peak_Season_Arrivals
            /\ r.Peak_Season_Arrivals <= int(RMul(peak, R(11, 10)))
            /\ int(RMul(off, R(9, 10))) <= r.Off_Season_Arrivals
            /\ r.Off_Season_Arrivals <= int(RMul(off, R(11, 10)))

\* C15: in every record the peak value is arrivals * 1.5 and the off-season
\* value arrivals * 0.6 for the months 6, 7, 8 and 12, and arrivals * 0.8 and
\* arrivals * 1.2 for every other month, each scaled by its own uniform draw
\* in [0.9, 1.1] (stored truncated); both are non-negative and lie between 0.9
\* and 1.1 times the unscaled value.
C15_PeakOffSeasonSplit ==
    /\ SplitHolds(data)
    /\ SplitHolds(tourism_df)

\* A December record and a January record with positive arrivals, the
\* December one scaled by two different draws.
C15_Witness ==
    /\ \E i \in DOMAIN tourism_df :
          /\ tourism_df[i].Month = 12
          /\ tourism_df[i].Arrivals > 0
          /\ PeakDraw(i) # OffDraw(i)
          /\ tourism_df[i].Peak_Season_Arrivals > tourism_df[i].Off_Season_Arrivals
    /\ \E i \in DOMAIN tourism_df :
          /\ tourism_df[i].Month = 1
          /\ tourism_df[i].Arrivals > 0
          /\ tourism_df[i].Peak_Season_Arrivals < tourism_df[i].Off_Season_Arrivals

\* (yearFactor[y] - yearFactor[y-1]) / yearFactor[y-1] * 100
YearOverYear(y) ==
    RMul(RDiv(RSub(R(year_multipliers[y], 100), R(year_multipliers[y - 1], 100)),
              R(year_multipliers[y - 1], 100)),
         RInt(100))

\* The stream state of the second draw of the i-th record's iteration.
GrowthDrawState(i) == RngAdvance(StreamAt(i), 2)

\* The growth rate of a record of the given year whose second draw is made in
\* stream state s: a function of the year and the draw alone.
GrowthRateOf(year, s) ==
    IF year = 2018
    THEN np_random_normal(s, RInt(2), RInt(3))
    ELSE RAdd(YearOverYear(year), np_random_normal(s, RInt(0), RInt(5)))

GrowthHolds(df) ==
    \A i \in DOMAIN df :
        df[i].Arrivals_Growth_Rate
            = round(GrowthRateOf(df[i].Year, GrowthDrawState(i)), 10)

\* C16: the growth rate of a record of 2018 is a draw N(2, 3); that of a
\* record of a later year y is (yearFactor[y] - yearFactor[y-1]) /
\* yearFactor[y-1] * 100 plus a draw N(0, 5) (stored rounded to one decimal);
\* it is a function of the year and of the record's own draw, not of any
\* record's arrivals.
C16_GrowthRateFromYearFactors ==
    /\ GrowthHolds(data)
    /\ GrowthHolds(tourism_df)

\* Two records of 2020 of different countries, with different arrivals and the
\* same draw, carry the same growth rate; a record of 2018 with a zero draw
\* carries 2.0 and one of 2020 with a zero draw carries -71.4.
C16_Witness ==
    /\ \E i, j \in DOMAIN tourism_df :
          /\ tourism_df[i].Year = 2020 /\ tourism_df[j].Year = 2020
          /\ tourism_df[i].Country # tourism_df[j].Country
          /\ tourism_df[i].Arrivals # tourism_df[j].Arrivals
          /\ GrowthDrawState(i) = GrowthDrawState(j)
          /\ tourism_df[i].Arrivals_Growth_Rate = tourism_df[j].Arrivals_Growth_Rate
    /\ \E i \in DOMAIN tourism_df :
          /\ tourism_df[i].Year = 2018
          /\ np_random_normal(GrowthDrawState(i), RInt(0), RInt(1)) = RInt(0)
          /\ tourism_df[i].Arrivals_Growth_Rate = 20
    /\ \E i \in DOMAIN tourism_df :
          /\ tourism_df[i].Year = 2020
          /\ np_random_normal(GrowthDrawState(i), RInt(0), RInt(1)) = RInt(0)
          /\ tourism_df[i].Arrivals_Growth_Rate = -714

(***************************************************************************)
(* Control flow of the verifier's main (specification VerifierSpec).       *)
(***************************************************************************)
AllBasicPassed == \A i \in DOMAIN BasicQueries : Passed(BasicQueries[i])
SomeBasicFailed == \E i \in DOMAIN BasicQueries : Failed(BasicQueries[i])
Ended == vpc \in {"done", "returned", "raised"}
FinalReport == InfoLine("compatible with all existing SQL solutions") \in Range(out)

\* After a failed basic check nothing further is executed.
NothingAfterBasicFailure ==
    SomeBasicFailed =>
        /\ \A i \in DOMAIN SolutionQueries : ~Executed(SolutionQueries[i])
        /\ \A i \in DOMAIN DataQualityQueries : ~Executed(DataQualityQueries[i])
        /\ ScriptFile \notin files
        /\ conn # "closed"
        /\ ~FinalReport

\* Whatever the specific-solution checks report, all three are run and the
\* data-quality analysis is entered after them.
SolutionOutcomesIgnored ==
    /\ (AllBasicPassed /\ vpc # "solutions") =>
          \A i \in DOMAIN SolutionQueries : Executed(SolutionQueries[i])
    /\ (AllBasicPassed /\ vpc \notin {"solutions", "data_quality"}) =>
          Executed(DataQualityQueries[1])

\* C17: once the verifier has ended, the script file is written and the final
\* report printed exactly when the five basic checks all passed; the outcomes
\* of the specific-solution checks change nothing that is executed after
\* them; after a failed basic check no specific-solution check, data-quality
\* query, script write or connection close is executed.
C17_ScriptAndReportFollowBasicChecks ==
    /\ NothingAfterBasicFailure
    /\ SolutionOutcomesIgnored
    /\ Ended => ((ScriptFile \in files /\ FinalReport) <=> AllBasicPassed)

====
